---- MODULE Spec2Model ----
(***************************************************************************)
(* Model of myrecon/myrecon.py: the T2 reconstruction pipeline             *)
(* (t2_reconstruction, create_coil_combined_im, rss) and its driver.       *)
(*                                                                         *)
(* Spec     follows one run of the driver statement by statement.  Arrays  *)
(*          are carried by their shapes and by the provenance of their     *)
(*          contents (which engine, which weight set, which input slice).  *)
(* SpecVal  runs the data path on small arrays of Gaussian integers, to    *)
(*          settle the statements about sample values.                     *)
(***************************************************************************)
EXTENDS Integers, Sequences, FiniteSets, TLC

VARIABLES pc, inp, names, engines, dicts, zipped, zi, average, slice_num,
          kspace_post_grappa_all, im, im_3d, img_dict, err, calls, written,
          vpc, vin, vpost, vim, vmean, vout

vars == <<pc, inp, names, engines, dicts, zipped, zi, average, slice_num,
          kspace_post_grappa_all, im, im_3d, img_dict, err, calls, written,
          vpc, vin, vpost, vim, vmean, vout>>

runVars == <<pc, inp, names, engines, dicts, zipped, zi, average, slice_num,
             kspace_post_grappa_all, im, im_3d, img_dict, err, calls, written>>

valVars == <<vpc, vin, vpost, vim, vmean, vout>>

(***************************************************************************)
(* Bounds of the explored inputs and constants of the program.             *)
(***************************************************************************)
MaxSlices == 2

KernelSize == 5

CropSize == 320

AvgCounts == {1, 2, 3, 4}

RoSizes == {256, 320, 640}

PeSizes == {200, 320}

HdrSizes == {256, 320, 640}

CalSizes == {KernelSize - 1, KernelSize}

NoIdx == 0 - 1

None == [none |-> TRUE]

(* an array that has not been allocated yet *)
Unset == << >>

(***************************************************************************)
(* Inputs of a run: the shape of kspace_data, the phase-encode width of    *)
(* each slice's calibration data, and the encoded matrix size of hdr.      *)
(***************************************************************************)
Inputs ==
  UNION { [num_avg : AvgCounts, num_slices : {n}, num_ro : RoSizes,
           num_pe : PeSizes, calW : [0 .. n - 1 -> CalSizes],
           hdr : [ro : HdrSizes, pe : HdrSizes]] : n \in 1 .. MaxSlices }

Slices == 0 .. inp.num_slices - 1

NoWeights == [by |-> "none", calib |-> NoIdx]

ZeroEntry == [engine |-> "none", weights |-> NoWeights,
              inavg |-> NoIdx, inslice |-> NoIdx]

Call(op, e, a, s) == [op |-> op, engine |-> e, average |-> a, slice |-> s]

Exc(type, line, a, s) == [type |-> type, line |-> line, average |-> a, slice |-> s]

(* kspace_data[a, s, ...]: numpy raises IndexError when a or s is out of range *)
InBounds(a, s) == a < inp.num_avg /\ s < inp.num_slices

TypeOK ==
  /\ pc \in {"idle", "l166", "l105", "l111", "l114", "l118", "l128", "l130",
             "l130next", "l135", "l144", "l145", "l150", "l155", "l157",
             "l168", "exit", "failed"}
  /\ (pc # "idle") => inp \in Inputs

(***************************************************************************)
(* External capabilities, as the design describes them.                    *)
(***************************************************************************)
(* Grappa(kspace, kernel_size=(5, 5), coil_axis=1): an engine bound to the *)
(* geometry of its reference k-space                                       *)
Grappa(id, a, s) == [id |-> id, ref |-> <<a, s>>,
                     geom |-> <<inp.num_ro, inp.num_pe>>]

(* compute_weights fails when the calibration region is narrower than the  *)
(* kernel                                                                  *)
CalibrationOK(s) == inp.calW[s] >= KernelSize

compute_weights(e, s) == [by |-> e, calib |-> s]

(* apply_weights preserves the shape and needs the engine's geometry *)
GeometryOK(e) == engines[e].geom = <<inp.num_ro, inp.num_pe>>

apply_weights(e, a, s, w) == [engine |-> e, weights |-> w, inavg |-> a, inslice |-> s]

(* zero_pad_kspace_hdr: pads to the encoded matrix of the header, fails    *)
(* when the target is smaller than the acquired extent                     *)
HeaderOK == inp.hdr.ro >= inp.num_ro /\ inp.hdr.pe >= inp.num_pe

PaddedShape == <<inp.num_slices, inp.hdr.ro, inp.hdr.pe>>

(* center_crop_im fails when the image is smaller than the target *)
CropOK(shape) == shape[2] >= CropSize /\ shape[3] >= CropSize

(***************************************************************************)
(* numpy: im[average] = x requires x to broadcast to im[average].shape     *)
(***************************************************************************)
Broadcasts(src, dst) ==
  /\ Len(src) = Len(dst)
  /\ \A i \in 1 .. Len(dst) : src[i] = dst[i] \/ src[i] = 1

ImShape == <<inp.num_slices, inp.num_ro, inp.num_ro>>

(***************************************************************************)
(* The run.                                                                *)
(***************************************************************************)
Raise(e) ==
  /\ pc' = "failed"
  /\ err' = e

Init ==
  /\ pc = "l166"
  /\ inp \in Inputs
  /\ names = [grappa_obj |-> "unbound", grappa_obj_2 |-> "unbound",
              grappa_weight_dict |-> "unbound", grappa_weight_dict_2 |-> "unbound"]
  /\ engines = << >>
  /\ dicts = << >>
  /\ zipped = << >>
  /\ zi = 0
  /\ average = NoIdx
  /\ slice_num = NoIdx
  /\ kspace_post_grappa_all = Unset
  /\ im = Unset
  /\ im_3d = None
  /\ img_dict = None
  /\ err = None
  /\ calls = << >>
  /\ written = None
  /\ vpc = "idle"
  /\ vin = None
  /\ vpost = Unset
  /\ vim = Unset
  /\ vmean = Unset
  /\ vout = Unset

(* __main__: load_file_T2, then the call of t2_reconstruction *)
LoadFile ==
  /\ pc = "l166"
  /\ pc' = "l105"
  /\ UNCHANGED <<inp, names, engines, dicts, zipped, zi, average, slice_num,
                 kspace_post_grappa_all, im, im_3d, img_dict, err, calls, written>>
  /\ UNCHANGED valVars

(* line 105-109: unpack the shape, create the two weight dictionaries *)
Unpack ==
  /\ pc = "l105"
  /\ pc' = "l111"
  /\ dicts' = [dA |-> << >>, dB |-> << >>]
  /\ names' = [names EXCEPT !.grappa_weight_dict = "dA",
                            !.grappa_weight_dict_2 = "dB"]
  /\ UNCHANGED <<inp, engines, zipped, zi, average, slice_num,
                 kspace_post_grappa_all, im, im_3d, img_dict, err, calls, written>>
  /\ UNCHANGED valVars

(* line 111-112: engine built from average 0, slice 0 *)
ConstructEngineA ==
  /\ pc = "l111"
  /\ IF InBounds(0, 0)
       THEN /\ engines' = ("engineA" :> Grappa("engineA", 0, 0))
            /\ names' = [names EXCEPT !.grappa_obj = "engineA"]
            /\ calls' = Append(calls, Call("Grappa", "engineA", 0, 0))
            /\ pc' = "l114"
            /\ UNCHANGED err
       ELSE /\ Raise(Exc("IndexError", 111, 0, NoIdx))
            /\ UNCHANGED <<engines, names, calls>>
  /\ UNCHANGED <<inp, dicts, zipped, zi, average, slice_num,
                 kspace_post_grappa_all, im, im_3d, img_dict, written>>
  /\ UNCHANGED valVars

(* line 114-115: engine built from average 1, slice 0 *)
ConstructEngineB ==
  /\ pc = "l114"
  /\ IF InBounds(1, 0)
       THEN /\ engines' = engines @@ ("engineB" :> Grappa("engineB", 1, 0))
            /\ names' = [names EXCEPT !.grappa_obj_2 = "engineB"]
            /\ calls' = Append(calls, Call("Grappa", "engineB", 1, 0))
            /\ pc' = "l118"
            /\ slice_num' = 0
            /\ UNCHANGED err
       ELSE /\ Raise(Exc("IndexError", 114, 1, NoIdx))
            /\ UNCHANGED <<engines, names, calls, slice_num>>
  /\ UNCHANGED <<inp, dicts, zipped, zi, average,
                 kspace_post_grappa_all, im, im_3d, img_dict, written>>
  /\ UNCHANGED valVars

(* variant: the second dictionary is filled through the first engine *)
ComputeWeightsOneEngine ==
  /\ pc = "l118"
  /\ slice_num < inp.num_slices
  /\ LET eA == names.grappa_obj
         dA == names.grappa_weight_dict
         dB == names.grappa_weight_dict_2
     IN IF CalibrationOK(slice_num)
          THEN /\ dicts' = [dicts EXCEPT
                     ![dA] = (slice_num :> compute_weights(eA, slice_num)) @@ @,
                     ![dB] = (slice_num :> compute_weights(eA, slice_num)) @@ @]
               /\ calls' = calls \o
                     << Call("compute_weights", eA, NoIdx, slice_num),
                        Call("compute_weights", eA, NoIdx, slice_num) >>
               /\ slice_num' = slice_num + 1
               /\ pc' = IF slice_num + 1 < inp.num_slices THEN "l118" ELSE "l128"
               /\ UNCHANGED err
          ELSE /\ Raise(Exc("CalibrationInsufficientError", 120, NoIdx, NoIdx))
               /\ calls' = Append(calls, Call("compute_weights", eA, NoIdx, slice_num))
               /\ UNCHANGED <<dicts, slice_num>>
  /\ UNCHANGED <<inp, names, engines, zipped, zi, average,
                 kspace_post_grappa_all, im, im_3d, img_dict, written>>
  /\ UNCHANGED valVars

(* line 118-125: one iteration of the weight loop, both engines *)
ComputeWeights ==
  /\ pc = "l118"
  /\ slice_num < inp.num_slices
  /\ LET eA == names.grappa_obj
         eB == names.grappa_obj_2
         dA == names.grappa_weight_dict
         dB == names.grappa_weight_dict_2
     IN IF CalibrationOK(slice_num)
          THEN /\ dicts' = [dicts EXCEPT
                     ![dA] = (slice_num :> compute_weights(eA, slice_num)) @@ @,
                     ![dB] = (slice_num :> compute_weights(eB, slice_num)) @@ @]
               /\ calls' = calls \o
                     << Call("compute_weights", eA, NoIdx, slice_num),
                        Call("compute_weights", eB, NoIdx, slice_num) >>
               /\ slice_num' = slice_num + 1
               /\ pc' = IF slice_num + 1 < inp.num_slices THEN "l118" ELSE "l128"
               /\ UNCHANGED err
          ELSE /\ Raise(Exc("CalibrationInsufficientError", 120, NoIdx, NoIdx))
               /\ calls' = Append(calls, Call("compute_weights", eA, NoIdx, slice_num))
               /\ UNCHANGED <<dicts, slice_num>>
  /\ UNCHANGED <<inp, names, engines, zipped, zi, average,
                 kspace_post_grappa_all, im, im_3d, img_dict, written>>
  /\ UNCHANGED valVars

(* line 128: kspace_post_grappa_all = np.zeros(kspace_data.shape) *)
AllocPost ==
  /\ pc = "l128"
  /\ kspace_post_grappa_all' =
       [a \in 0 .. inp.num_avg - 1 |-> [s \in Slices |-> ZeroEntry]]
  /\ pc' = "l130"
  /\ UNCHANGED <<inp, names, engines, dicts, zipped, zi, average, slice_num,
                 im, im_3d, img_dict, err, calls, written>>
  /\ UNCHANGED valVars

(* line 130-134: the three list literals are evaluated once, before the    *)
(* loop rebinds grappa_obj and grappa_weight_dict                          *)
(* variant: the third tuple is read after the loop has rebound the names *)
ZipArgsLate(nm) ==
  << [average |-> 0, obj |-> nm.grappa_obj,   dict |-> nm.grappa_weight_dict],
     [average |-> 1, obj |-> nm.grappa_obj_2, dict |-> nm.grappa_weight_dict_2],
     [average |-> 2, obj |-> nm.grappa_obj_2, dict |-> nm.grappa_weight_dict_2] >>

ZipArgs(nm) ==
  << [average |-> 0, obj |-> nm.grappa_obj,   dict |-> nm.grappa_weight_dict],
     [average |-> 1, obj |-> nm.grappa_obj_2, dict |-> nm.grappa_weight_dict_2],
     [average |-> 2, obj |-> nm.grappa_obj,   dict |-> nm.grappa_weight_dict] >>

ZipEval ==
  /\ pc = "l130"
  /\ zipped' = ZipArgs(names)
  /\ zi' = 1
  /\ pc' = "l130next"
  /\ UNCHANGED <<inp, names, engines, dicts, average, slice_num,
                 kspace_post_grappa_all, im, im_3d, img_dict, err, calls, written>>
  /\ UNCHANGED valVars

(* line 130: the next tuple of the zip is bound to average, grappa_obj,    *)
(* grappa_weight_dict; or the loop ends                                    *)
ApplyBind ==
  /\ pc = "l130next"
  /\ IF zi <= Len(zipped)
       THEN /\ average' = zipped[zi].average
            /\ names' = [names EXCEPT !.grappa_obj = zipped[zi].obj,
                                      !.grappa_weight_dict = zipped[zi].dict]
            /\ zi' = zi + 1
            /\ slice_num' = 0
            /\ pc' = "l135"
       ELSE /\ pc' = "l144"
            /\ UNCHANGED <<average, names, zi, slice_num>>
  /\ UNCHANGED <<inp, engines, dicts, zipped,
                 kspace_post_grappa_all, im, im_3d, img_dict, err, calls, written>>
  /\ UNCHANGED valVars

(* line 135-141: one slice of one average *)
ApplyStep ==
  /\ pc = "l135"
  /\ slice_num < inp.num_slices
  /\ LET e == names.grappa_obj
         w == dicts[names.grappa_weight_dict][slice_num]
     IN IF ~InBounds(average, slice_num)
          THEN /\ Raise(Exc("IndexError", 136, average, NoIdx))
               /\ UNCHANGED <<kspace_post_grappa_all, calls, slice_num>>
          ELSE IF ~GeometryOK(e)
          THEN /\ Raise(Exc("GeometryMismatchError", 137, NoIdx, NoIdx))
               /\ calls' = Append(calls, Call("apply_weights", e, average, slice_num))
               /\ UNCHANGED <<kspace_post_grappa_all, slice_num>>
          ELSE /\ kspace_post_grappa_all' =
                    [kspace_post_grappa_all EXCEPT ![average][slice_num] =
                        apply_weights(e, average, slice_num, w)]
               /\ calls' = Append(calls, Call("apply_weights", e, average, slice_num))
               /\ slice_num' = slice_num + 1
               /\ pc' = IF slice_num + 1 < inp.num_slices THEN "l135" ELSE "l130next"
               /\ UNCHANGED err
  /\ UNCHANGED <<inp, names, engines, dicts, zipped, zi, average,
                 im, im_3d, img_dict, written>>
  /\ UNCHANGED valVars

(* line 144: im = np.zeros((num_avg, num_slices, num_ro, num_ro)) *)
AllocIm ==
  /\ pc = "l144"
  /\ im' = [a \in 0 .. inp.num_avg - 1 |-> [shape |-> ImShape, filled |-> FALSE,
                                             of |-> None]]
  /\ average' = 0
  /\ pc' = "l145"
  /\ UNCHANGED <<inp, names, engines, dicts, zipped, zi, slice_num,
                 kspace_post_grappa_all, img_dict, im_3d, err, calls, written>>
  /\ UNCHANGED valVars

(* variant: the loop over the averages ends after its first iteration *)
ReconAverageOnce ==
  /\ pc = "l145"
  /\ average < inp.num_avg
  /\ IF ~HeaderOK
       THEN /\ Raise(Exc("HeaderParseError", 147, NoIdx, NoIdx))
            /\ calls' = Append(calls, Call("zero_pad_kspace_hdr", "none", average, NoIdx))
            /\ UNCHANGED <<im, average>>
       ELSE IF ~Broadcasts(PaddedShape, ImShape)
       THEN /\ Raise(Exc("ValueError", 148, NoIdx, NoIdx))
            /\ calls' = calls \o
                 << Call("zero_pad_kspace_hdr", "none", average, NoIdx),
                    Call("create_coil_combined_im", "none", average, NoIdx) >>
            /\ UNCHANGED <<im, average>>
       ELSE /\ im' = [im EXCEPT ![average] =
                        [shape |-> ImShape, filled |-> TRUE,
                         of |-> kspace_post_grappa_all[average]]]
            /\ calls' = calls \o
                 << Call("zero_pad_kspace_hdr", "none", average, NoIdx),
                    Call("create_coil_combined_im", "none", average, NoIdx) >>
            /\ average' = average + 1
            /\ pc' = "l150"
            /\ UNCHANGED err
  /\ UNCHANGED <<inp, names, engines, dicts, zipped, zi, slice_num,
                 kspace_post_grappa_all, im_3d, img_dict, written>>
  /\ UNCHANGED valVars

(* line 145-148: pad, coil-combine and store one average *)
ReconAverage ==
  /\ pc = "l145"
  /\ average < inp.num_avg
  /\ IF ~HeaderOK
       THEN /\ Raise(Exc("HeaderParseError", 147, NoIdx, NoIdx))
            /\ calls' = Append(calls, Call("zero_pad_kspace_hdr", "none", average, NoIdx))
            /\ UNCHANGED <<im, average>>
       ELSE IF ~Broadcasts(PaddedShape, ImShape)
       THEN /\ Raise(Exc("ValueError", 148, NoIdx, NoIdx))
            /\ calls' = calls \o
                 << Call("zero_pad_kspace_hdr", "none", average, NoIdx),
                    Call("create_coil_combined_im", "none", average, NoIdx) >>
            /\ UNCHANGED <<im, average>>
       ELSE /\ im' = [im EXCEPT ![average] =
                        [shape |-> ImShape, filled |-> TRUE,
                         of |-> kspace_post_grappa_all[average]]]
            /\ calls' = calls \o
                 << Call("zero_pad_kspace_hdr", "none", average, NoIdx),
                    Call("create_coil_combined_im", "none", average, NoIdx) >>
            /\ average' = average + 1
            /\ pc' = IF average + 1 < inp.num_avg THEN "l145" ELSE "l150"
            /\ UNCHANGED err
  /\ UNCHANGED <<inp, names, engines, dicts, zipped, zi, slice_num,
                 kspace_post_grappa_all, im_3d, img_dict, written>>
  /\ UNCHANGED valVars

(* line 150: im_3d = np.mean(im, axis = 0) *)
MeanStep ==
  /\ pc = "l150"
  /\ im_3d' = [shape |-> ImShape, of |-> im]
  /\ calls' = Append(calls, Call("mean", "none", NoIdx, NoIdx))
  /\ pc' = "l155"
  /\ UNCHANGED <<inp, names, engines, dicts, zipped, zi, average, slice_num,
                 kspace_post_grappa_all, im, img_dict, err, written>>
  /\ UNCHANGED valVars

(* line 154-155: center crop to 320 x 320 *)
CropStep ==
  /\ pc = "l155"
  /\ calls' = Append(calls, Call("center_crop_im", "none", NoIdx, NoIdx))
  /\ IF CropOK(im_3d.shape)
       THEN /\ img_dict' = [shape |-> <<im_3d.shape[1], CropSize, CropSize>>,
                            of |-> im_3d.of]
            /\ pc' = "l157"
            /\ UNCHANGED err
       ELSE /\ Raise(Exc("CropSizeError", 155, NoIdx, NoIdx))
            /\ UNCHANGED img_dict
  /\ UNCHANGED <<inp, names, engines, dicts, zipped, zi, average, slice_num,
                 kspace_post_grappa_all, im, im_3d, written>>
  /\ UNCHANGED valVars

(* line 157: return img_dict to __main__ *)
Return ==
  /\ pc = "l157"
  /\ pc' = "l168"
  /\ UNCHANGED <<inp, names, engines, dicts, zipped, zi, average, slice_num,
                 kspace_post_grappa_all, im, im_3d, img_dict, err, calls, written>>
  /\ UNCHANGED valVars

(* variant: the writer also runs when the reconstruction has raised *)
SaveAlways ==
  /\ pc \in {"l168", "failed"}
  /\ written = None
  /\ written' = [shape |-> << >>, of |-> im]
  /\ calls' = Append(calls, Call("save_recon", "none", NoIdx, NoIdx))
  /\ pc' = IF pc = "failed" THEN "failed" ELSE "exit"
  /\ UNCHANGED <<inp, names, engines, dicts, zipped, zi, average, slice_num,
                 kspace_post_grappa_all, im, im_3d, img_dict, err>>
  /\ UNCHANGED valVars

(* line 168: save_recon(img_dict, output_file) *)
Save ==
  /\ pc = "l168"
  /\ written' = img_dict
  /\ calls' = Append(calls, Call("save_recon", "none", NoIdx, NoIdx))
  /\ pc' = "exit"
  /\ UNCHANGED <<inp, names, engines, dicts, zipped, zi, average, slice_num,
                 kspace_post_grappa_all, im, im_3d, img_dict, err>>
  /\ UNCHANGED valVars

Next ==
  \/ LoadFile
  \/ Unpack
  \/ ConstructEngineA
  \/ ConstructEngineB
  \/ ComputeWeights
  \/ AllocPost
  \/ ZipEval
  \/ ApplyBind
  \/ ApplyStep
  \/ AllocIm
  \/ ReconAverage
  \/ MeanStep
  \/ CropStep
  \/ Return
  \/ Save

Spec == Init /\ [][Next]_vars

(***************************************************************************)
(* The data path on sample values.  Samples are Gaussian integers <<re,    *)
(* im>>; magnitudes are rounded down to the integer grid, where numpy      *)
(* rounds to a double.  Images have side 1 or 4, so that the inverse       *)
(* transform stays within the Gaussian integers, and the crop target is    *)
(* CropSizeSmall in place of 320.                                          *)
(***************************************************************************)
MaxCoils == 2

CropSizeSmall == 2

(* the seeds of the three averages *)
SeedTriples == { <<0, 0, 0>>, <<1, 1, 1>>, <<1, 2, 0>>, <<2, 0, 1>>,
                 <<2, 1, 2>>, <<0, 1, 2>> }

CalValues == {1, 2}

(* acquired readout and phase-encode lengths with the header's matrix size *)
VGeoms ==
  { [num_ro |-> 4, num_pe |-> 2, hdr |-> [ro |-> 4, pe |-> 4]],
    [num_ro |-> 4, num_pe |-> 4, hdr |-> [ro |-> 4, pe |-> 4]],
    [num_ro |-> 4, num_pe |-> 1, hdr |-> [ro |-> 4, pe |-> 1]],
    [num_ro |-> 1, num_pe |-> 1, hdr |-> [ro |-> 4, pe |-> 4]],
    [num_ro |-> 1, num_pe |-> 1, hdr |-> [ro |-> 1, pe |-> 1]] }

CZero == <<0, 0>>

CAdd(x, y) == <<x[1] + y[1], x[2] + y[2]>>

CScale(n, x) == <<n * x[1], n * x[2]>>

(* x times i^e *)
CMulI(x, e) ==
  CASE e % 4 = 0 -> x
    [] e % 4 = 1 -> <<0 - x[2], x[1]>>
    [] e % 4 = 2 -> <<0 - x[1], 0 - x[2]>>
    [] OTHER     -> <<x[2], 0 - x[1]>>

RECURSIVE IsqrtFrom(_, _)
IsqrtFrom(n, r) == IF (r + 1) * (r + 1) > n THEN r ELSE IsqrtFrom(n, r + 1)

Isqrt(n) == IsqrtFrom(n, 0)

(* abs() of a complex sample *)
Abs(z) == Isqrt(z[1] * z[1] + z[2] * z[2])

Rows(x) == Len(x)

Cols(x) == Len(x[1])

(* an undersampled acquisition: average a holds the phase-encode lines of  *)
(* one parity, seed 0 is the all-zero acquisition                          *)
Sample(q, a, s, c, r, p) ==
  IF q = 0 \/ (p + a) % 2 = 0
    THEN CZero
    ELSE CScale(4, <<((q + r + s) % 3) - 1, (q + c + p) % 2>>)

VKspace(g, S, C, seeds) ==
  [a \in 0 .. 2 |-> [s \in 0 .. S - 1 |-> [c \in 1 .. C |->
     [r \in 1 .. g.num_ro |-> [p \in 1 .. g.num_pe |->
        Sample(seeds[a + 1], a, s, c, r, p)]]]]]

VInputs ==
  { [num_slices |-> S, num_coils |-> C, num_ro |-> g.num_ro, num_pe |-> g.num_pe,
     hdr |-> g.hdr, calib |-> [s \in 0 .. S - 1 |-> w + s],
     kspace |-> VKspace(g, S, C, seeds)] :
       S \in 1 .. MaxSlices, C \in 1 .. MaxCoils, g \in VGeoms,
       w \in CalValues, seeds \in SeedTriples }

(* Grappa(kspace): the engine keeps the phase-encode lines its reference   *)
(* k-space has sampled                                                     *)
GrappaV(id, ref) ==
  [id |-> id,
   mask |-> {p \in 1 .. Cols(ref[1]) :
               \E c \in DOMAIN ref : \E r \in 1 .. Rows(ref[c]) : ref[c][r][p] # CZero}]

compute_weights_v(e, cal) == [by |-> e.id, w |-> cal]

(* apply_weights: the lines the engine has not sampled are filled from     *)
(* their two neighbours with the weight; the shape is preserved            *)
apply_weights_v(e, k, wts) ==
  [c \in DOMAIN k |-> [r \in 1 .. Rows(k[c]) |-> [p \in 1 .. Cols(k[c]) |->
     IF p \in e.mask
       THEN k[c][r][p]
       ELSE CScale(wts.w,
              CAdd(IF p > 1 THEN k[c][r][p - 1] ELSE CZero,
                   IF p < Cols(k[c]) THEN k[c][r][p + 1] ELSE CZero))]]]

(* zero_pad_kspace_hdr: the acquired block is placed in the encoded matrix *)
(* of the header with its zero-frequency sample on the matrix's            *)
zero_pad_kspace_hdr(hdr, k) ==
  [s \in DOMAIN k |-> [c \in DOMAIN k[s] |->
     LET R  == Rows(k[s][c])
         P  == Cols(k[s][c])
         r0 == hdr.ro \div 2 - R \div 2
         p0 == hdr.pe \div 2 - P \div 2
     IN [r \in 1 .. hdr.ro |-> [p \in 1 .. hdr.pe |->
           IF r - r0 \in 1 .. R /\ p - p0 \in 1 .. P
             THEN k[s][c][r - r0][p - p0]
             ELSE CZero]]]]

(* ifftnd(x, [1, 2]): centred, orthonormal inverse transform of one coil   *)
(* image; the lengths divide 4 and their product is a square               *)
ifftnd2(x) ==
  LET N1 == Rows(x)
      N2 == Cols(x)
      sh(n, N) == ((n + N \div 2) % N) + 1
      un(i, N) == ((i - 1) + N - N \div 2) % N
      pixel(i1, i2) ==
        LET term(k) ==
              LET n1 == k \div N2
                  n2 == k % N2
              IN CMulI(x[sh(n1, N1)][sh(n2, N2)],
                       (4 \div N1) * un(i1, N1) * n1 + (4 \div N2) * un(i2, N2) * n2)
            S[k \in 0 .. N1 * N2] ==
              IF k = 0 THEN CZero ELSE CAdd(S[k - 1], term(k - 1))
        IN <<S[N1 * N2][1] \div Isqrt(N1 * N2), S[N1 * N2][2] \div Isqrt(N1 * N2)>>
  IN [i1 \in 1 .. N1 |-> [i2 \in 1 .. N2 |-> pixel(i1, i2)]]

ifftnd(data_sl) == [c \in DOMAIN data_sl |-> ifftnd2(data_sl[c])]

(* variant: the sum of squares without the square root *)
rss_nosqrt(sig) ==
  [r \in 1 .. Rows(sig[1]) |-> [p \in 1 .. Cols(sig[1]) |->
     LET S[c \in 0 .. Len(sig)] ==
           IF c = 0 THEN 0 ELSE S[c - 1] + Abs(sig[c][r][p]) * Abs(sig[c][r][p])
     IN S[Len(sig)]]]

(* variant: a regularising term under the square root *)
rss_eps(sig) ==
  [r \in 1 .. Rows(sig[1]) |-> [p \in 1 .. Cols(sig[1]) |->
     LET S[c \in 0 .. Len(sig)] ==
           IF c = 0 THEN 0 ELSE S[c - 1] + Abs(sig[c][r][p]) * Abs(sig[c][r][p])
     IN Isqrt(S[Len(sig)] + 1)]]

(* rss(sig, axis = 0): np.sqrt(np.sum(abs(sig)**2, axis)) *)
rss(sig) ==
  [r \in 1 .. Rows(sig[1]) |-> [p \in 1 .. Cols(sig[1]) |->
     LET S[c \in 0 .. Len(sig)] ==
           IF c = 0 THEN 0 ELSE S[c - 1] + Abs(sig[c][r][p]) * Abs(sig[c][r][p])
     IN Isqrt(S[Len(sig)])]]

(* np.flipud *)
flipud(image) == [r \in 1 .. Rows(image) |-> image[Rows(image) + 1 - r]]

(* line 63-85 *)
create_coil_combined_im(k) ==
  [i \in DOMAIN k |-> flipud(rss(ifftnd(k[i])))]

(* im[average] = x: numpy broadcasts axes of length 1 *)
BroadcastTo(x, R, P) ==
  [s \in DOMAIN x |-> [r \in 1 .. R |-> [p \in 1 .. P |->
     x[s][IF Rows(x[s]) = 1 THEN 1 ELSE r][IF Cols(x[s]) = 1 THEN 1 ELSE p]]]]

(* variant: a running average, (…(x0 + x1)/2 + x2)/2 *)
MeanAxis0Running(x) ==
  LET n == Cardinality(DOMAIN x)
  IN [s \in DOMAIN x[0] |-> [r \in 1 .. Rows(x[0][s]) |-> [p \in 1 .. Cols(x[0][s]) |->
       LET S[a \in 0 .. n] ==
             IF a = 0 THEN 0
             ELSE IF a = 1 THEN x[0][s][r][p]
             ELSE S[a - 1] + 2 ^ (a - 2) * x[a - 1][s][r][p]
       IN [num |-> S[n], den |-> 2 ^ (n - 1)]]]]

(* np.mean(im, axis = 0): the sum over the averages, in order, divided by  *)
(* their number; kept as an exact fraction                                 *)
MeanAxis0(x) ==
  LET n == Cardinality(DOMAIN x)
  IN [s \in DOMAIN x[0] |-> [r \in 1 .. Rows(x[0][s]) |-> [p \in 1 .. Cols(x[0][s]) |->
       LET S[a \in 0 .. n] ==
             IF a = 0 THEN 0 ELSE S[a - 1] + x[a - 1][s][r][p]
       IN [num |-> S[n], den |-> n]]]]

(* center_crop_im(im_3d, [t, t]) *)
center_crop_im(x, t) ==
  [s \in DOMAIN x |->
     LET r0 == (Rows(x[s]) - t) \div 2
         p0 == (Cols(x[s]) - t) \div 2
     IN [r \in 1 .. t |-> [p \in 1 .. t |-> x[s][r0 + r][p0 + p]]]]

(* line 111-141 on values: both engines, both weight dictionaries, and the *)
(* completed k-space of the three averages                                 *)
PostGrappa(v) ==
  LET grappa_obj   == GrappaV("engineA", v.kspace[0][0])
      grappa_obj_2 == GrappaV("engineB", v.kspace[1][0])
      wd   == [s \in DOMAIN v.calib |-> compute_weights_v(grappa_obj, v.calib[s])]
      wd_2 == [s \in DOMAIN v.calib |-> compute_weights_v(grappa_obj_2, v.calib[s])]
      obj(a)  == IF a = 1 THEN grappa_obj_2 ELSE grappa_obj
      dict(a) == IF a = 1 THEN wd_2 ELSE wd
  IN [a \in 0 .. 2 |-> [s \in DOMAIN v.calib |->
        apply_weights_v(obj(a), v.kspace[a][s], dict(a)[s])]]

VIdle ==
  /\ pc = "idle" /\ inp = None /\ names = None /\ engines = None
  /\ dicts = None /\ zipped = None /\ zi = 0 /\ average = NoIdx
  /\ slice_num = NoIdx /\ kspace_post_grappa_all = Unset /\ im = Unset
  /\ im_3d = None /\ img_dict = None /\ err = None /\ calls = << >>
  /\ written = None

InitVal ==
  /\ VIdle
  /\ vpc = "l111"
  /\ vin \in VInputs
  /\ vpost = Unset
  /\ vim = Unset
  /\ vmean = Unset
  /\ vout = Unset

(* line 111-141 *)
VApplyWeights ==
  /\ vpc = "l111"
  /\ vpost' = PostGrappa(vin)
  /\ vpc' = "l144"
  /\ UNCHANGED <<vin, vim, vmean, vout>>
  /\ UNCHANGED runVars

(* line 144-148: every average is padded, coil-combined and stored in im *)
VRecon ==
  /\ vpc = "l144"
  /\ IF vin.hdr.ro < vin.num_ro \/ vin.hdr.pe < vin.num_pe
       THEN /\ vpc' = "HeaderParseError"
            /\ UNCHANGED vim
       ELSE IF ~Broadcasts(<<vin.num_slices, vin.hdr.ro, vin.hdr.pe>>,
                           <<vin.num_slices, vin.num_ro, vin.num_ro>>)
       THEN /\ vpc' = "ValueError"
            /\ UNCHANGED vim
       ELSE /\ vim' = [a \in 0 .. 2 |->
                         BroadcastTo(create_coil_combined_im(
                                        zero_pad_kspace_hdr(vin.hdr, vpost[a])),
                                     vin.num_ro, vin.num_ro)]
            /\ vpc' = "l150"
  /\ UNCHANGED <<vin, vpost, vmean, vout>>
  /\ UNCHANGED runVars

(* line 150 *)
VMean ==
  /\ vpc = "l150"
  /\ vmean' = MeanAxis0(vim)
  /\ vpc' = "l155"
  /\ UNCHANGED <<vin, vpost, vim, vout>>
  /\ UNCHANGED runVars

(* line 154-157 *)
VCrop ==
  /\ vpc = "l155"
  /\ IF vin.num_ro < CropSizeSmall
       THEN /\ vpc' = "CropSizeError"
            /\ UNCHANGED vout
       ELSE /\ vout' = center_crop_im(vmean, CropSizeSmall)
            /\ vpc' = "done"
  /\ UNCHANGED <<vin, vpost, vim, vmean>>
  /\ UNCHANGED runVars

NextVal ==
  \/ VApplyWeights
  \/ VRecon
  \/ VMean
  \/ VCrop

SpecVal == InitVal /\ [][NextVal]_vars

(***************************************************************************)
(* Properties of the run.                                                  *)
(***************************************************************************)
Terminated == pc \in {"exit", "failed"}

Engs == {"engineA", "engineB"}

(* the engine the design assigns to an average *)
E(a) == IF a = 1 THEN "engineB" ELSE "engineA"

IsCall(i, op, e, a, s) == calls[i] = Call(op, e, a, s)

Before(i, op, e, a, s) == \E j \in 1 .. i - 1 : IsCall(j, op, e, a, s)

Idx(op) == {i \in 1 .. Len(calls) : calls[i].op = op}

NarrowSlices == {s \in Slices : ~CalibrationOK(s)}

(* C1: every completed k-space stored at (a, s), a in 0..2, is the result  *)
(* of apply_weights on engine E(a) with the input of (a, s) and the weight *)
(* set E(a) computed from slice s; engineA is built from (0, 0), engineB   *)
(* from (1, 0); no engine applies a weight set of the other engine; after  *)
(* the apply loop every (a, s) is stored.                                  *)
C1_EnginePairing ==
  /\ \A e \in DOMAIN engines :
        engines[e].ref = (IF e = "engineA" THEN <<0, 0>> ELSE <<1, 0>>)
  /\ kspace_post_grappa_all # Unset =>
       \A a \in DOMAIN kspace_post_grappa_all : \A s \in Slices :
          LET x == kspace_post_grappa_all[a][s]
          IN /\ x # ZeroEntry =>
                  /\ a \in 0 .. 2
                  /\ x = apply_weights(E(a), a, s, compute_weights(E(a), s))
                  /\ x.weights.by = x.engine
             /\ (a \in 0 .. 2 /\ pc \in {"l144", "l145", "l150", "l155",
                                          "l157", "l168", "exit"})
                  => x # ZeroEntry
  /\ \A i \in Idx("apply_weights") : calls[i].engine = E(calls[i].average)

C1_Witness ==
  /\ pc = "l144"
  /\ inp.num_slices >= 2
  /\ names.grappa_obj = "engineA"
  /\ kspace_post_grappa_all[1][1].engine = "engineB"
  /\ kspace_post_grappa_all[2][1].engine = "engineA"
  /\ kspace_post_grappa_all[2][1].weights = [by |-> "engineA", calib |-> 1]

(* C2 (as claimed): a run on 2 averages (calibration and header valid)     *)
(* ends with InputShapeError, raised before any engine is built or used.   *)
C2_TwoAveragesRejected ==
  (inp.num_avg = 2 /\ NarrowSlices = {} /\ HeaderOK /\ Terminated)
     => (pc = "failed" /\ err.type = "InputShapeError" /\ calls = << >>)

(* C3: before the first apply_weights call, compute_weights has been       *)
(* called for every slice on both engines; with a calibration narrower     *)
(* than the kernel in any slice no apply_weights call is ever made, and a  *)
(* 3-average run ends with CalibrationInsufficientError raised by the      *)
(* compute_weights call of the first such slice.                           *)
C3_WeightsBeforeApply ==
  /\ \A i \in Idx("apply_weights") : \A s \in Slices : \A e \in Engs :
        Before(i, "compute_weights", e, NoIdx, s)
  /\ (NarrowSlices # {}) => Idx("apply_weights") = {}
  /\ (NarrowSlices # {} /\ inp.num_avg = 3 /\ Terminated) =>
        /\ pc = "failed"
        /\ err.type = "CalibrationInsufficientError"
        /\ \E s \in NarrowSlices :
              /\ \A t \in NarrowSlices : s <= t
              /\ calls[Len(calls)] = Call("compute_weights", "engineA", NoIdx, s)

C3_Witness ==
  /\ pc = "failed"
  /\ err # None
  /\ err.type = "CalibrationInsufficientError"
  /\ inp.num_slices >= 2
  /\ NarrowSlices = {1}
  /\ Idx("compute_weights") # {}
  /\ Idx("apply_weights") = {}

(* C4: the writer is called only after weights, completed k-space and      *)
(* combined images exist for averages 0..2 and all slices and no step has  *)
(* raised; once a step has raised the writer is never called.              *)
C4_NoPartialOutput ==
  /\ (written # None \/ Idx("save_recon") # {}) =>
        /\ err = None
        /\ pc = "exit"
        /\ written = img_dict
        /\ written.shape = <<inp.num_slices, CropSize, CropSize>>
        /\ Idx("mean") # {} /\ Idx("center_crop_im") # {}
        /\ \A a \in 0 .. 2 :
              /\ im[a].filled
              /\ \A s \in Slices :
                    /\ kspace_post_grappa_all[a][s] # ZeroEntry
                    /\ s \in DOMAIN dicts.dA /\ s \in DOMAIN dicts.dB
  /\ (err # None \/ pc = "failed") => (written = None /\ Idx("save_recon") = {})

C4_Witness ==
  /\ pc = "exit"
  /\ written # None
  /\ inp.num_slices >= 2

C4_WitnessAbort ==
  /\ pc = "failed"
  /\ err # None
  /\ err.type = "ValueError"
  /\ written = None

(* C5 (as claimed): every 3-average run with valid calibration and header  *)
(* whose padded image is at least 320 x 320 completes with a result of     *)
(* shape (numSlices, 320, 320).                                            *)
C5_ShapeAlways320 ==
  (/\ inp.num_avg = 3
   /\ NarrowSlices = {}
   /\ HeaderOK
   /\ PaddedShape[2] >= CropSize /\ PaddedShape[3] >= CropSize
   /\ Terminated)
     => (pc = "exit" /\ written.shape = <<inp.num_slices, CropSize, CropSize>>)

(* C6 (as claimed): every error that reaches the caller carries the index  *)
(* of the offending slice or average.                                      *)
C6_ErrorsAnnotated ==
  err # None => (err.average # NoIdx \/ err.slice # NoIdx)

(* C10: the mean is computed only after averages 0..2 have each been       *)
(* weight-completed for every slice, padded and coil-combined, every image *)
(* stack that enters the mean is a stored coil-combined stack, and the     *)
(* crop comes only after the mean.                                         *)
C10_MeanAfterAll ==
  /\ \A i \in Idx("mean") :
        /\ \A a \in 0 .. 2 :
              /\ \A s \in Slices : Before(i, "apply_weights", E(a), a, s)
              /\ Before(i, "zero_pad_kspace_hdr", "none", a, NoIdx)
              /\ Before(i, "create_coil_combined_im", "none", a, NoIdx)
        /\ \A j \in Idx("zero_pad_kspace_hdr") \cup Idx("create_coil_combined_im")
                    \cup Idx("apply_weights") : j < i
  /\ \A i \in Idx("center_crop_im") : Before(i, "mean", "none", NoIdx, NoIdx)
  /\ im_3d # None =>
        /\ \A a \in DOMAIN im_3d.of : im_3d.of[a].filled
        /\ \A a \in 0 .. 2 : \A s \in Slices : im_3d.of[a].of[s] # ZeroEntry

C10_Witness ==
  /\ pc = "l157"
  /\ im_3d # None
  /\ img_dict # None
  /\ inp.num_slices >= 2

(***************************************************************************)
(* Properties of the sample values.                                        *)
(***************************************************************************)
AllZeroKspace ==
  \A a \in DOMAIN vin.kspace : \A s \in DOMAIN vin.kspace[a] :
    \A c \in DOMAIN vin.kspace[a][s] : \A r \in 1 .. vin.num_ro :
      \A p \in 1 .. vin.num_pe : vin.kspace[a][s][c][r][p] = CZero

Padded(a) == zero_pad_kspace_hdr(vin.hdr, vpost[a])

Perms3 == { f \in [0 .. 2 -> 0 .. 2] : \A a \in 0 .. 2 : \E b \in 0 .. 2 : f[b] = a }

(* C7: for an all-zero k-space volume of 3 averages, with any calibration  *)
(* and header of the inputs, every element of the image stack returned is  *)
(* zero (and so is every element of the completed k-space, of the three    *)
(* per-average stacks and of their mean).                                  *)
C7_ZeroInZeroOut ==
  (vpc # "idle" /\ AllZeroKspace) =>
     /\ vpost # Unset =>
          \A a \in 0 .. 2 : \A s \in DOMAIN vpost[a] : \A c \in DOMAIN vpost[a][s] :
            \A r \in 1 .. vin.num_ro : \A p \in 1 .. vin.num_pe :
               vpost[a][s][c][r][p] = CZero
     /\ vim # Unset =>
          \A a \in 0 .. 2 : \A s \in DOMAIN vim[a] :
            \A r \in 1 .. vin.num_ro : \A p \in 1 .. vin.num_ro : vim[a][s][r][p] = 0
     /\ vpc = "done" =>
          \A s \in DOMAIN vout : \A r \in 1 .. CropSizeSmall :
            \A p \in 1 .. CropSizeSmall : vout[s][r][p].num = 0

C7_Witness ==
  /\ vpc = "done"
  /\ AllZeroKspace
  /\ vin.num_coils >= 2
  /\ vin.num_pe < vin.hdr.pe
  /\ DOMAIN vout = 0 .. vin.num_slices - 1
  /\ vout[0][1][1].num = 0

(* C8: the combined stack is the elementwise arithmetic mean of the three  *)
(* per-average stacks, and it is the same for every permutation of the     *)
(* three stacks.                                                           *)
C8_MeanOrderInvariant ==
  vmean # Unset =>
     /\ \A s \in DOMAIN vmean : \A r \in 1 .. vin.num_ro : \A p \in 1 .. vin.num_ro :
          /\ vmean[s][r][p].den = 3
          /\ vmean[s][r][p].num = vim[0][s][r][p] + vim[1][s][r][p] + vim[2][s][r][p]
     /\ \A f \in Perms3 : MeanAxis0([a \in 0 .. 2 |-> vim[f[a]]]) = vmean

C8_Witness ==
  /\ vpc = "l155"
  /\ vmean # Unset
  /\ \E s \in DOMAIN vmean : \E r \in 1 .. vin.num_ro : \E p \in 1 .. vin.num_ro :
        /\ vim[0][s][r][p] # vim[1][s][r][p]
        /\ vim[1][s][r][p] # vim[2][s][r][p]
        /\ vim[0][s][r][p] # vim[2][s][r][p]

(* C9: with a single coil, every slice of the coil-combined image is the   *)
(* vertically flipped elementwise magnitude of the inverse transform of    *)
(* that coil's k-space.                                                    *)
C9_SingleCoilMagnitude ==
  (vim # Unset /\ vin.num_coils = 1) =>
     \A a \in 0 .. 2 :
        LET k   == Padded(a)
            img == create_coil_combined_im(k)
        IN /\ vim[a] = BroadcastTo(img, vin.num_ro, vin.num_ro)
           /\ \A s \in DOMAIN k : \A r \in 1 .. vin.hdr.ro : \A p \in 1 .. vin.hdr.pe :
                 img[s][r][p] = Abs(ifftnd2(k[s][1])[vin.hdr.ro + 1 - r][p])

C9_Witness ==
  /\ vim # Unset
  /\ vin.num_coils = 1
  /\ vin.hdr.ro = 4
  /\ \E r \in 1 .. 4 : \E p \in 1 .. vin.hdr.pe :
        /\ Abs(ifftnd2(Padded(0)[0][1])[r][p]) > 1
        /\ Abs(ifftnd2(Padded(0)[0][1])[r][p]) # Abs(ifftnd2(Padded(0)[0][1])[5 - r][p])

====
